---- MODULE Spec2Model ----
(***************************************************************************)
(* Model of EasyPostShippingClient (src/scripts/cli.ts): the two-stage     *)
(* shipment workflow over the JSON state file, with the EasyPost API and   *)
(* the Shopify CLI as the environment.                                      *)
(*                                                                         *)
(* Environment assumptions (EasyPost, not code of this repository):        *)
(*  - Shipment.create assigns an identifier it never assigned before;      *)
(*  - Shipment.buy can succeed only for a shipment that exists at the      *)
(*    carrier and has never had postage bought; it may always fail;        *)
(*  - Shipment.refund can succeed only for a shipment whose postage is     *)
(*    bought and not refunded; it may always fail.                         *)
(***************************************************************************)
EXTENDS Integers, Sequences, FiniteSets, TLC

\* ---------------------------------------------------------------- bounds
MaxRates == 2      \* longest rate list the carrier returns

\* ------------------------------------------------------------ JS values
Undefined == "undefined"

\* property read on a parsed JSON object: a missing key reads as undefined
Get(obj, key) == IF key \in DOMAIN obj THEN obj[key] ELSE Undefined

\* the properties declared optional (string?) in the interfaces
OptionalKeys == {"orderId", "trackingCode", "labelUrl"}

\* mutant of Json: every optional property is dropped, defined or not
JsonDropsOptional(obj) == [k \in DOMAIN obj \ OptionalKeys |-> obj[k]]

\* JSON.stringify followed by JSON.parse of one object: keys whose value is
\* undefined are dropped
Json(obj) ==
  LET keep == {k \in DOMAIN obj : ~(k \in OptionalKeys /\ obj[k] = Undefined)}
  IN  [k \in keep |-> obj[k]]

\* the shipment identifiers EasyPost assigns, in the order it assigns them
IdOrder == <<"shp_1", "shp_2">>
Ids == {IdOrder[i] : i \in DOMAIN IdOrder}

\* ------------------------------------------------------ rates (interface Rate)
Rate(i, c, s, r, cur) == [id |-> i, carrier |-> c, service |-> s, rate |-> r, currency |-> cur]

AllRates ==
  { Rate("rate_1", "UPS", "Standard", "9.99", "GBP"),
    Rate("rate_2", "UPS", "Express Saver", "15.50", "GBP"),
    Rate("rate_3", "DHL", "Parcel", "12.75", "EUR") }

RateIds == {r.id : r \in AllRates} \cup {"rate_x"}

\* parseFloat of the decimal price strings, in hundredths
parseFloat(s) ==
  CASE s = "9.99"  -> 999
    [] s = "15.50" -> 1550
    [] s = "12.75" -> 1275

\* String.prototype.toLowerCase on the carrier names in use
toLowerCase(s) ==
  CASE s = "UPS"   -> "ups"
    [] s = "ups"   -> "ups"
    [] s = "DHL"   -> "dhl"
    [] s = "FedEx" -> "fedex"
    [] OTHER       -> s

\* sequences of distinct rates, as Shipment.create may return them
RECURSIVE RateLists(_)
RateLists(n) ==
  IF n = 0 THEN {<<>>}
  ELSE LET shorter == RateLists(n - 1)
       IN  shorter \cup
           {Append(l, r) : l \in {s \in shorter : Len(s) = n - 1},
                           r \in AllRates}

DistinctIds(l) == \A i, j \in 1..Len(l) : i # j => l[i].id # l[j].id

\* the shipment Shipment.create returns: its rates property may be missing
RateResponses ==
  {[object |-> "Shipment", rates |-> l] : l \in {x \in RateLists(MaxRates) : DistinctIds(x)}}
    \cup {[object |-> "Shipment"]}

\* the filter callback of createShipment: no filter, or same carrier
\* ignoring case (r.carrier?.toLowerCase() === options.carrier.toLowerCase())
CarrierMatches(r, carrierFilter) ==
  \/ carrierFilter = Undefined
  \/ carrierFilter = ""
  \/ toLowerCase(r.carrier) = toLowerCase(carrierFilter)

\* position of a price string in text order ("12.75" < "15.50" < "9.99")
TextRank(s) ==
  CASE s = "12.75" -> 1
    [] s = "15.50" -> 2
    [] s = "9.99"  -> 3

\* mutant of RateCompare: the price strings are compared as text
RateCompareText(a, b) == TextRank(a.rate) - TextRank(b.rate)

\* the sort comparator of createShipment
RateCompare(a, b) == parseFloat(a.rate) - parseFloat(b.rate)

\* insert x after every element that does not compare greater (stable)
RECURSIVE InsertRate(_, _)
InsertRate(l, x) ==
  IF l = <<>> THEN <<x>>
  ELSE IF RateCompare(Head(l), x) > 0 THEN <<x>> \o l
       ELSE <<Head(l)>> \o InsertRate(Tail(l), x)

\* Array.prototype.sort with RateCompare (stable since ES2019)
RECURSIVE SortRates(_)
SortRates(l) ==
  IF l = <<>> THEN <<>>
  ELSE InsertRate(SortRates(SubSeq(l, 1, Len(l) - 1)), l[Len(l)])

\* (shipment.rates || []).filter(...).map(...).sort(...)
ExtractRates(response, carrierFilter) ==
  LET returned == IF "rates" \in DOMAIN response THEN response.rates ELSE <<>>
      Keep(r) == CarrierMatches(r, carrierFilter)
  IN  SortRates(SelectSeq(returned, Keep))

\* ------------------------------------------------------------------ state
VARIABLES
  file,      \* content of STATE_PATH
  carrier,   \* EasyPost's record of every shipment identifier
  now,       \* the wall clock read by new Date()
  cache,     \* the entries of the process's PluginCache, by shipment identifier
  cacheDisabled,  \* this.cacheDisabled
  writer,    \* the writeFileSync call under way on STATE_PATH, if any
  last       \* the operation last run: arguments, outcome, external calls

vars == <<file, carrier, now, cache, cacheDisabled, writer, last>>

\* what STATE_PATH can hold: nothing (no file), the JSON text of a
\* ShipmentState (kind json), text JSON.parse rejects (kind text), or the JSON
\* text of some other value (kind other)
NoFile == [kind |-> "missing"]
Unparsable == [kind |-> "text"]
OtherJson == [kind |-> "other", value |-> [version |-> 1]]

\* loadState: a missing or unparsable file reads as no shipments; any text
\* JSON.parse accepts is returned as parsed
loadState ==
  IF file.kind = "json"
  THEN [shipments |-> file.shipments, lastUpdated |-> file.lastUpdated]
  ELSE IF file.kind = "other"
  THEN file.value
  ELSE [shipments |-> <<>>, lastUpdated |-> now]

\* saveState: stamp lastUpdated, write the whole mapping as JSON
saveState(state) ==
  [kind |-> "json",
   shipments |-> [k \in DOMAIN state.shipments |-> Json(state.shipments[k])],
   lastUpdated |-> now]

\* state.shipments[shipmentId] is not undefined
Has(state, shipmentId) == shipmentId \in DOMAIN state.shipments

\* mutant of Put: every record goes under the first identifier
PutUnderFirst(state, shipmentId, record) ==
  [state EXCEPT !.shipments =
     [k \in DOMAIN state.shipments \cup {IdOrder[1]} |->
        IF k = IdOrder[1] THEN record ELSE state.shipments[k]]]

\* mutant of Put: the record written is the only one kept
PutAlone(state, shipmentId, record) ==
  [state EXCEPT !.shipments = [k \in {shipmentId} |-> record]]

\* state.shipments[shipmentId] = record
Put(state, shipmentId, record) ==
  [state EXCEPT !.shipments =
     [k \in DOMAIN state.shipments \cup {shipmentId} |->
        IF k = shipmentId THEN record ELSE state.shipments[k]]]

\* mutant of Delete: nothing is removed
DeleteNothing(state, shipmentId) == state

\* delete state.shipments[shipmentId]
Delete(state, shipmentId) ==
  [state EXCEPT !.shipments =
     [k \in DOMAIN state.shipments \ {shipmentId} |-> state.shipments[k]]]

\* no writeFileSync call is under way
Idle == [busy |-> FALSE]

\* getFromAddress
getFromAddress == "warehouse"

\* one entry of the log of external calls an operation made
Call(endpoint, args, ok, result) ==
  [endpoint |-> endpoint, args |-> args, ok |-> ok, result |-> result]

\* what an operation did: op(args) ended with outcome, returning ret (a value,
\* or the content of the error message), after the external calls in calls.
\* args, ret and the result of a call are records that name what they hold.
Nothing == [none |-> TRUE]
Thrown == [error |-> "thrown"]

Done(op, args, outcome, ret, calls) ==
  [op |-> op, args |-> args, outcome |-> outcome, ret |-> ret, calls |-> calls]

\* --------------------------------------------------------------- EasyPost
NotCreated == [status |-> "none", tracking_code |-> Undefined, label_url |-> Undefined]
Created == [status |-> "created", tracking_code |-> Undefined, label_url |-> Undefined]

\* what Shipment.buy returns for a shipment: the tracking_code the carrier
\* gives it, and postage_label?.label_url, which may be undefined
BuyResponses(shipmentId) ==
  IF shipmentId = IdOrder[1]
  THEN {[tracking_code |-> "1Z001", label_url |-> "https://label/1"]}
  ELSE {[tracking_code |-> "1Z002", label_url |-> Undefined]}

\* the identifier Shipment.create assigns next
FreshIds ==
  {IdOrder[i] : i \in {n \in DOMAIN IdOrder :
                          /\ carrier[IdOrder[n]].status = "none"
                          /\ \A k \in 1..(n - 1) : carrier[IdOrder[k]].status # "none"}}

\* ------------------------------------------------------------------- inputs
Parcel == [weight |-> 15]

Options(o, a, c) == [orderId |-> o, toAddress |-> a, carrier |-> c]

\* the CreateShipmentOptions tried: nothing to go by, an order, a manual
\* address (unfiltered, filtered, filtered to a carrier nobody offers), both
CreateOptions ==
  { Options(Undefined, Undefined, Undefined),
    Options("order_1", Undefined, Undefined),
    Options(Undefined, "manual_address", Undefined),
    Options(Undefined, "manual_address", "ups"),
    Options(Undefined, "manual_address", "FedEx"),
    Options("order_1", "manual_address", "ups") }

\* fetchShopifyOrderAddress: the address of the order, or a throw
ResolveOutcomes(orderId) == {"shopify_address", "throw"}

Init ==
  /\ file = NoFile
  /\ carrier = [i \in Ids |-> NotCreated]
  /\ now = 0
  /\ cache = <<>>
  /\ cacheDisabled = FALSE
  /\ writer = Idle
  /\ last = Done("init", Nothing, "ok", Nothing, <<>>)

\* --------------------------------------------------------- createShipment
\* mutant of NoRatesAvailable: the empty list is not rejected
NoRatesAvailableNever(rates) == FALSE

\* if (rates.length === 0)
NoRatesAvailable(rates) == Len(rates) = 0

\* if (options.orderId)
HasOrderId(options) == options.orderId # Undefined

\* mutant of HasToAddress: the address is used without being tested
HasToAddressAlways(options) == TRUE

\* else if (options.toAddress)
HasToAddress(options) == options.toAddress # Undefined

\* the part of createShipment after the destination address is known
CreateWithAddress(options, toAddress, calls) ==
  \/ \* Shipment.create throws
     /\ last' = Done("createShipment", [options |-> options], "ExternalError", Nothing,
                     Append(calls, Call("Shipment.create", <<toAddress>>, FALSE, Thrown)))
     /\ UNCHANGED <<file, carrier, now, cache, cacheDisabled, writer>>
  \/ \E id \in FreshIds, response \in RateResponses :
       LET rates == ExtractRates(response, options.carrier)
           calls2 == Append(calls, Call("Shipment.create", <<toAddress>>, TRUE,
                                      [id |-> id] @@ response))
           pendingShipment ==
             [id |-> id, createdAt |-> now, orderId |-> options.orderId,
              toAddress |-> toAddress, fromAddress |-> getFromAddress,
              parcel |-> Parcel, rates |-> rates, status |-> "pending"]
       IN  /\ carrier' = [carrier EXCEPT ![id] = Created]
           /\ IF NoRatesAvailable(rates)
              THEN /\ last' = Done("createShipment", [options |-> options], "NoRates",
                                   Nothing, calls2)
                   /\ UNCHANGED <<file, now, cache, cacheDisabled, writer>>
              ELSE /\ file' = saveState(Put(loadState, id, pendingShipment))
                   /\ last' = Done("createShipment", [options |-> options], "ok",
                                   [shipment |-> pendingShipment], calls2)
                   /\ UNCHANGED <<now, cache, cacheDisabled, writer>>

createShipment(options) ==
  IF HasOrderId(options)
  THEN \E resolved \in ResolveOutcomes(options.orderId) :
         LET call == Call("fetchShopifyOrderAddress", <<options.orderId>>, resolved # "throw",
                         IF resolved = "throw" THEN Thrown ELSE [address |-> resolved])
         IN  IF resolved = "throw"
             THEN /\ last' = Done("createShipment", [options |-> options], "ResolveFailed",
                                  Nothing, <<call>>)
                  /\ UNCHANGED <<file, carrier, now, cache, cacheDisabled, writer>>
             ELSE CreateWithAddress(options, resolved, <<call>>)
  ELSE IF HasToAddress(options)
  THEN CreateWithAddress(options, options.toAddress, <<>>)
  ELSE /\ last' = Done("createShipment", [options |-> options], "NoAddress", Nothing, <<>>)
       /\ UNCHANGED <<file, carrier, now, cache, cacheDisabled, writer>>

\* --------------------------------------------------------------- buyLabel
\* the rate buyLabel looks for: pendingShipment.rates.find(r => r.id === rateId)
\* undefined, read as a Rate: every property is undefined
NoRate == Rate(Undefined, Undefined, Undefined, Undefined, Undefined)

\* mutant of FindRate: the first stored rate, whatever rateId says
FindRateFirst(rates, rateId) == IF Len(rates) > 0 THEN rates[1] ELSE NoRate

FindRate(rates, rateId) ==
  IF \E i \in 1..Len(rates) : rates[i].id = rateId
  THEN rates[CHOOSE i \in 1..Len(rates) :
               /\ rates[i].id = rateId
               /\ \A k \in 1..(i - 1) : rates[k].id # rateId]
  ELSE NoRate

\* mutant of RateFound: the rate is not verified
RateFoundAlways(rates, rateId) == TRUE

\* if (!rate) is not taken
RateFound(rates, rateId) == FindRate(rates, rateId) # NoRate

\* mutant of BlocksPurchase: the already-purchased test is missing
BlocksPurchaseNever(pendingShipment) == FALSE

\* mutant of BlocksPurchase: the test names the wrong status
BlocksPurchaseVoided(pendingShipment) == pendingShipment.status = "voided"

\* the status test that stops buyLabel from buying again
BlocksPurchase(pendingShipment) == pendingShipment.status = "purchased"

\* mutant of MarkPurchased: the label is stored, the status is left alone
MarkPurchasedKeepsStatus(pendingShipment, label) ==
  [k \in DOMAIN pendingShipment \cup {"trackingCode", "labelUrl"} |->
     CASE k = "trackingCode" -> label.trackingCode
       [] k = "labelUrl" -> label.labelUrl
       [] OTHER -> pendingShipment[k]]

\* mutant of MarkPurchased: the tracking code is not stored
MarkPurchasedNoTracking(pendingShipment, label) ==
  [k \in DOMAIN pendingShipment \cup {"trackingCode", "labelUrl"} |->
     CASE k = "status" -> "purchased"
       [] k = "trackingCode" -> Undefined
       [] k = "labelUrl" -> label.labelUrl
       [] OTHER -> pendingShipment[k]]

\* the three assignments buyLabel makes to the record after the purchase
MarkPurchased(pendingShipment, label) ==
  [k \in DOMAIN pendingShipment \cup {"trackingCode", "labelUrl"} |->
     CASE k = "status" -> "purchased"
       [] k = "trackingCode" -> label.trackingCode
       [] k = "labelUrl" -> label.labelUrl
       [] OTHER -> pendingShipment[k]]

\* mutant of buyLabel: the rate is looked up before the status is checked
buyLabelRateFirst(shipmentId, rateId) ==
  LET state == loadState
      pendingShipment == state.shipments[shipmentId]
      args == [shipmentId |-> shipmentId, rateId |-> rateId]
  IN
  IF ~Has(state, shipmentId)
  THEN /\ last' = Done("buyLabel", args, "NotFound", Nothing, <<>>)
       /\ UNCHANGED <<file, carrier, now, cache, cacheDisabled, writer>>
  ELSE LET rate == FindRate(pendingShipment.rates, rateId) IN
  IF ~RateFound(pendingShipment.rates, rateId)
  THEN /\ last' = Done("buyLabel", args, "RateNotFound",
                       [available |-> [i \in 1..Len(pendingShipment.rates) |->
                                         pendingShipment.rates[i].id]], <<>>)
       /\ UNCHANGED <<file, carrier, now, cache, cacheDisabled, writer>>
  ELSE IF BlocksPurchase(pendingShipment)
  THEN /\ last' = Done("buyLabel", args, "AlreadyPurchased",
                       [tracking |-> Get(pendingShipment, "trackingCode")], <<>>)
       /\ UNCHANGED <<file, carrier, now, cache, cacheDisabled, writer>>
  ELSE
    \/ \* Shipment.buy throws
       /\ last' = Done("buyLabel", args, "ExternalError", Nothing,
                       <<Call("Shipment.buy", <<shipmentId, rateId>>, FALSE, Thrown)>>)
       /\ UNCHANGED <<file, carrier, now, cache, cacheDisabled, writer>>
    \/ \E purchasedShipment \in BuyResponses(shipmentId) :
         LET label == [trackingCode |-> purchasedShipment.tracking_code,
                       labelUrl |-> purchasedShipment.label_url,
                       carrier |-> rate.carrier, service |-> rate.service,
                       rate |-> rate.rate, currency |-> rate.currency]
             updated == MarkPurchased(pendingShipment, label)
         IN  /\ carrier[shipmentId].status = "created"
             /\ carrier' = [carrier EXCEPT ![shipmentId] =
                              [status |-> "sold",
                               tracking_code |-> purchasedShipment.tracking_code,
                               label_url |-> purchasedShipment.label_url]]
             /\ file' = saveState(Put(state, shipmentId, updated))
             /\ last' = Done("buyLabel", args, "ok", [label |-> label],
                             <<Call("Shipment.buy", <<shipmentId, rateId>>, TRUE,
                                    purchasedShipment)>>)
             /\ UNCHANGED <<now, cache, cacheDisabled, writer>>

buyLabel(shipmentId, rateId) ==
  LET state == loadState
      pendingShipment == state.shipments[shipmentId]
      args == [shipmentId |-> shipmentId, rateId |-> rateId]
  IN
  IF ~Has(state, shipmentId)
  THEN /\ last' = Done("buyLabel", args, "NotFound", Nothing, <<>>)
       /\ UNCHANGED <<file, carrier, now, cache, cacheDisabled, writer>>
  ELSE IF BlocksPurchase(pendingShipment)
  THEN /\ last' = Done("buyLabel", args, "AlreadyPurchased",
                       [tracking |-> Get(pendingShipment, "trackingCode")], <<>>)
       /\ UNCHANGED <<file, carrier, now, cache, cacheDisabled, writer>>
  ELSE LET rate == FindRate(pendingShipment.rates, rateId) IN
  IF ~RateFound(pendingShipment.rates, rateId)
  THEN /\ last' = Done("buyLabel", args, "RateNotFound",
                       [available |-> [i \in 1..Len(pendingShipment.rates) |->
                                         pendingShipment.rates[i].id]], <<>>)
       /\ UNCHANGED <<file, carrier, now, cache, cacheDisabled, writer>>
  ELSE
    \/ \* Shipment.buy throws
       /\ last' = Done("buyLabel", args, "ExternalError", Nothing,
                       <<Call("Shipment.buy", <<shipmentId, rateId>>, FALSE, Thrown)>>)
       /\ UNCHANGED <<file, carrier, now, cache, cacheDisabled, writer>>
    \/ \E purchasedShipment \in BuyResponses(shipmentId) :
         LET label == [trackingCode |-> purchasedShipment.tracking_code,
                       labelUrl |-> purchasedShipment.label_url,
                       carrier |-> rate.carrier, service |-> rate.service,
                       rate |-> rate.rate, currency |-> rate.currency]
             updated == MarkPurchased(pendingShipment, label)
         IN  /\ carrier[shipmentId].status = "created"
             /\ carrier' = [carrier EXCEPT ![shipmentId] =
                              [status |-> "sold",
                               tracking_code |-> purchasedShipment.tracking_code,
                               label_url |-> purchasedShipment.label_url]]
             /\ file' = saveState(Put(state, shipmentId, updated))
             /\ last' = Done("buyLabel", args, "ok", [label |-> label],
                             <<Call("Shipment.buy", <<shipmentId, rateId>>, TRUE,
                                    purchasedShipment)>>)
             /\ UNCHANGED <<now, cache, cacheDisabled, writer>>

\* --------------------------------------------------------- cancelShipment
\* mutant of CancelRefused: a purchased record is cancelled like any other
CancelRefusedNever(shipment) == FALSE

\* the record cancelShipment refuses to delete
CancelRefused(shipment) == shipment.status = "purchased"

cancelShipment(shipmentId) ==
  LET state == loadState
      shipment == state.shipments[shipmentId]
  IN
  IF ~Has(state, shipmentId)
  THEN /\ last' = Done("cancelShipment", [shipmentId |-> shipmentId], "ok",
                       [success |-> FALSE, message |-> "not found"], <<>>)
       /\ UNCHANGED <<file, carrier, now, cache, cacheDisabled, writer>>
  ELSE IF CancelRefused(shipment)
  THEN /\ last' = Done("cancelShipment", [shipmentId |-> shipmentId], "ok",
                       [success |-> FALSE, message |-> "use void-label"], <<>>)
       /\ UNCHANGED <<file, carrier, now, cache, cacheDisabled, writer>>
  ELSE /\ file' = saveState(Delete(state, shipmentId))
       /\ last' = Done("cancelShipment", [shipmentId |-> shipmentId], "ok",
                       [success |-> TRUE, message |-> "cancelled"], <<>>)
       /\ UNCHANGED <<carrier, now, cache, cacheDisabled, writer>>

\* -------------------------------------------------------------- voidLabel
\* mutant of VoidFailure: the catch block reports a success
VoidFailureAsSuccess == [success |-> TRUE, message |-> "Void failed"]

\* what the catch block of voidLabel returns
VoidFailure == [success |-> FALSE, message |-> "Void failed"]

\* mutant of MarkVoided: the tracking code is cleared with the status change
MarkVoidedDropsTracking(shipment) ==
  [shipment EXCEPT !.status = "voided", !.trackingCode = Undefined]

\* mutant of MarkVoided: the quoted rates are dropped with the status change
MarkVoidedClearsRates(shipment) ==
  [shipment EXCEPT !.status = "voided", !.rates = <<>>]

\* state.shipments[shipmentId].status = "voided"
MarkVoided(shipment) == [shipment EXCEPT !.status = "voided"]

\* mutant of voidLabel: the record is marked voided before the refund is
\* asked for, and stays so when the refund throws
voidLabelMarksFirst(shipmentId) ==
  LET state == loadState
      shipment == state.shipments[shipmentId]
      marked == IF Has(state, shipmentId)
                THEN saveState(Put(state, shipmentId, MarkVoided(shipment)))
                ELSE file
  IN
  \/ /\ file' = marked
     /\ last' = Done("voidLabel", [shipmentId |-> shipmentId], "ok", VoidFailure,
                     <<Call("Shipment.refund", <<shipmentId>>, FALSE, Thrown)>>)
     /\ UNCHANGED <<carrier, now, cache, cacheDisabled, writer>>
  \/ /\ carrier[shipmentId].status = "sold"
     /\ carrier' = [carrier EXCEPT ![shipmentId].status = "refunded"]
     /\ file' = marked
     /\ last' = Done("voidLabel", [shipmentId |-> shipmentId], "ok",
                     [success |-> TRUE, message |-> "Refund requested"],
                     <<Call("Shipment.refund", <<shipmentId>>, TRUE, [status |-> "submitted"])>>)
     /\ UNCHANGED <<now, cache, cacheDisabled, writer>>

voidLabel(shipmentId) ==
  \/ \* Shipment.refund throws; the catch block returns the failure
     /\ last' = Done("voidLabel", [shipmentId |-> shipmentId], "ok", VoidFailure,
                     <<Call("Shipment.refund", <<shipmentId>>, FALSE, Thrown)>>)
     /\ UNCHANGED <<file, carrier, now, cache, cacheDisabled, writer>>
  \/ /\ carrier[shipmentId].status = "sold"
     /\ carrier' = [carrier EXCEPT ![shipmentId].status = "refunded"]
     /\ LET state == loadState
            shipment == state.shipments[shipmentId]
        IN  IF Has(state, shipmentId)
            THEN file' = saveState(Put(state, shipmentId, MarkVoided(shipment)))
            ELSE UNCHANGED file
     /\ last' = Done("voidLabel", [shipmentId |-> shipmentId], "ok",
                     [success |-> TRUE, message |-> "Refund requested"],
                     <<Call("Shipment.refund", <<shipmentId>>, TRUE, [status |-> "submitted"])>>)
     /\ UNCHANGED <<now, cache, cacheDisabled, writer>>

\* --------------------------------------------------------------- getRates
\* mutant of getRates: only a pending record has rates to show
getRatesPendingOnly(shipmentId) ==
  LET shipment == loadState.shipments[shipmentId] IN
  /\ last' = IF ~Has(loadState, shipmentId) \/ shipment.status # "pending"
             THEN Done("getRates", [shipmentId |-> shipmentId], "NotFound", Nothing, <<>>)
             ELSE Done("getRates", [shipmentId |-> shipmentId], "ok",
                       [rates |-> shipment.rates], <<>>)
  /\ UNCHANGED <<file, carrier, now, cache, cacheDisabled, writer>>

getRates(shipmentId) ==
  LET shipment == loadState.shipments[shipmentId] IN
  /\ last' = IF ~Has(loadState, shipmentId)
             THEN Done("getRates", [shipmentId |-> shipmentId], "NotFound", Nothing, <<>>)
             ELSE Done("getRates", [shipmentId |-> shipmentId], "ok",
                       [rates |-> shipment.rates], <<>>)
  /\ UNCHANGED <<file, carrier, now, cache, cacheDisabled, writer>>

\* ------------------------------------------------------------ listPending
\* Object.values(state.shipments): the records in insertion order, which is
\* the order in which EasyPost assigned the identifiers
RECURSIVE ValuesFrom(_, _)
ValuesFrom(state, n) ==
  IF n > Len(IdOrder) THEN <<>>
  ELSE (IF Has(state, IdOrder[n]) THEN <<state.shipments[IdOrder[n]]>> ELSE <<>>)
         \o ValuesFrom(state, n + 1)

ObjectValues(state) == ValuesFrom(state, 1)

\* mutant of CreatedCompare: oldest first
CreatedCompareOldestFirst(a, b) == a.createdAt - b.createdAt

\* the comparator of listPending: newest first
CreatedCompare(a, b) == b.createdAt - a.createdAt

RECURSIVE InsertCreated(_, _)
InsertCreated(l, x) ==
  IF l = <<>> THEN <<x>>
  ELSE IF CreatedCompare(Head(l), x) > 0 THEN <<x>> \o l
       ELSE <<Head(l)>> \o InsertCreated(Tail(l), x)

RECURSIVE SortCreated(_)
SortCreated(l) ==
  IF l = <<>> THEN <<>>
  ELSE InsertCreated(SortCreated(SubSeq(l, 1, Len(l) - 1)), l[Len(l)])

IsPending(s) == s.status = "pending"

listPending ==
  /\ last' = Done("listPending", Nothing, "ok",
                  [shipments |-> SortCreated(SelectSeq(ObjectValues(loadState), IsPending))],
                  <<>>)
  /\ UNCHANGED <<file, carrier, now, cache, cacheDisabled, writer>>

\* ------------------------------------------------------------ getShipment
\* TTL.MINUTE of the cache package, in clock ticks
TtlMinute == 2

\* mutant of Detail: the status is the one the local store holds
DetailFromStore(shipmentId) ==
  [id |-> shipmentId,
   status |-> IF file.kind = "json" /\ shipmentId \in DOMAIN file.shipments
              THEN file.shipments[shipmentId].status ELSE "absent",
   tracking_code |-> carrier[shipmentId].tracking_code]

\* the detail Shipment.retrieve returns, as getShipment maps it
Detail(shipmentId) ==
  [id |-> shipmentId, status |-> carrier[shipmentId].status,
   tracking_code |-> carrier[shipmentId].tracking_code]

\* mutant of BypassCache: getShipment never asks for a bypass
BypassCacheNever == FALSE

\* the bypassCache option getShipment passes to getOrFetch
BypassCache == cacheDisabled

\* the ttl option getShipment passes to getOrFetch
ShipmentTtl == TtlMinute

\* cache.getOrFetch finds a live entry and the cache is not bypassed
CacheHit(shipmentId) ==
  /\ ~BypassCache
  /\ shipmentId \in DOMAIN cache
  /\ now < cache[shipmentId].expires

\* keepsCache: the process goes on after the call (a long-lived client);
\* a CLI invocation exits, and its cache entries are gone with it
getShipment(shipmentId, keepsCache) ==
  IF CacheHit(shipmentId)
  THEN /\ last' = Done("getShipment", [shipmentId |-> shipmentId], "ok",
                       [detail |-> cache[shipmentId].value], <<>>)
       /\ UNCHANGED <<file, carrier, now, cache, cacheDisabled, writer>>
  ELSE
    \/ \* Shipment.retrieve throws
       /\ last' = Done("getShipment", [shipmentId |-> shipmentId], "ExternalError", Nothing,
                       <<Call("Shipment.retrieve", <<shipmentId>>, FALSE, Thrown)>>)
       /\ UNCHANGED <<file, carrier, now, cache, cacheDisabled, writer>>
    \/ /\ carrier[shipmentId].status # "none"
       /\ last' = Done("getShipment", [shipmentId |-> shipmentId], "ok",
                       [detail |-> Detail(shipmentId)],
                       <<Call("Shipment.retrieve", <<shipmentId>>, TRUE, Detail(shipmentId))>>)
       /\ cache' = IF keepsCache
                   THEN [k \in DOMAIN cache \cup {shipmentId} |->
                           IF k = shipmentId
                           THEN [value |-> Detail(shipmentId), expires |-> now + ShipmentTtl]
                           ELSE cache[k]]
                   ELSE cache
       /\ UNCHANGED <<file, carrier, now, cacheDisabled, writer>>

\* ---------------------------------------------------------- cache control
disableCache ==
  /\ cacheDisabled' = TRUE
  /\ last' = Done("disableCache", Nothing, "ok", Nothing, <<>>)
  /\ UNCHANGED <<file, carrier, now, cache, writer>>

enableCache ==
  /\ cacheDisabled' = FALSE
  /\ last' = Done("enableCache", Nothing, "ok", Nothing, <<>>)
  /\ UNCHANGED <<file, carrier, now, cache, writer>>

\* clearCache returns the number of entries it removed
clearCache ==
  /\ cache' = <<>>
  /\ last' = Done("clearCache", Nothing, "ok",
                  [cleared |-> Cardinality(DOMAIN cache)], <<>>)
  /\ UNCHANGED <<file, carrier, now, cacheDisabled, writer>>

Next ==
  \/ \E options \in CreateOptions : createShipment(options)
  \/ \E shipmentId \in Ids, rateId \in RateIds : buyLabel(shipmentId, rateId)
  \/ \E shipmentId \in Ids : cancelShipment(shipmentId)
  \/ \E shipmentId \in Ids : voidLabel(shipmentId)
  \/ \E shipmentId \in Ids : getRates(shipmentId)
  \/ listPending
  \/ \E shipmentId \in Ids : getShipment(shipmentId, FALSE)

Spec == Init /\ [][Next]_vars

\* ------------------------------------------------- the state file is lost
\* STATE_PATH is a file in /tmp: it can be gone (existsSync false) whatever
\* the program wrote before
removeFile ==
  /\ file.kind # "missing"
  /\ file' = NoFile
  /\ last' = Done("removeFile", Nothing, "ok", Nothing, <<>>)
  /\ UNCHANGED <<carrier, now, cache, cacheDisabled, writer>>

NextLost ==
  \/ Next
  \/ removeFile

SpecLost == Init /\ [][NextLost]_vars

\* ------------------------------------------------- the state file by itself
\* the records a ShipmentState can hold for an identifier, as the operations
\* build them in memory: optional properties may be present and undefined
StoredRecords(id) ==
  LET pending(o) ==
        [id |-> id, createdAt |-> 0, orderId |-> o, toAddress |-> "manual_address",
         fromAddress |-> getFromAddress, parcel |-> Parcel,
         rates |-> <<Rate("rate_1", "UPS", "Standard", "9.99", "GBP")>>,
         status |-> "pending"]
      bought(o, st, url) ==
        [k \in DOMAIN pending(o) \cup {"trackingCode", "labelUrl"} |->
           CASE k = "status" -> st
             [] k = "trackingCode" -> "1Z001"
             [] k = "labelUrl" -> url
             [] OTHER -> pending(o)[k]]
  IN  {pending(o) : o \in {Undefined, "order_1"}}
        \cup {bought(x[1], x[2], x[3]) :
                x \in {Undefined, "order_1"} \X {"purchased", "voided"}
                        \X {Undefined, "https://label/1"}}

\* the ShipmentState values saveState is given
ValidStates ==
  UNION { {[shipments |-> m, lastUpdated |-> 0] :
             m \in {f \in [present -> UNION {StoredRecords(id) : id \in present}] :
                      \A id \in present : f[id] \in StoredRecords(id)}} :
          present \in SUBSET Ids }

\* writeFileSync, first half: STATE_PATH is opened for writing, which
\* truncates it; the text to write is not in the file yet
openForWrite(state) ==
  /\ writer = Idle
  /\ writer' = [busy |-> TRUE, state |-> state, content |-> saveState(state)]
  /\ file' = Unparsable
  /\ last' = Done("openForWrite", [state |-> state], "ok", Nothing, <<>>)
  /\ UNCHANGED <<carrier, now, cache, cacheDisabled>>

\* writeFileSync, second half: the whole text is in the file
writeContent ==
  /\ writer # Idle
  /\ file' = writer.content
  /\ writer' = Idle
  /\ last' = Done("saveState", [state |-> writer.state], "ok", Nothing, <<>>)
  /\ UNCHANGED <<carrier, now, cache, cacheDisabled>>

\* loadState run by a process that starts now
readState ==
  /\ last' = Done("loadState", Nothing, "ok", [state |-> loadState], <<>>)
  /\ UNCHANGED <<file, carrier, now, cache, cacheDisabled, writer>>

\* something else than saveState puts content in STATE_PATH, or removes it
overwrite(content) ==
  /\ writer = Idle
  /\ file # content
  /\ file' = content
  /\ last' = Done("overwrite", Nothing, "ok", Nothing, <<>>)
  /\ UNCHANGED <<carrier, now, cache, cacheDisabled, writer>>

NextStore ==
  \/ \E state \in ValidStates : openForWrite(state)
  \/ writeContent
  \/ readState
  \/ \E content \in {NoFile, Unparsable, OtherJson} : overwrite(content)

SpecStore == Init /\ [][NextStore]_vars

\* ------------------------------------------- one client that keeps running
MaxTime == 3      \* the clock stops here

\* time passes
tick ==
  /\ now < MaxTime
  /\ now' = now + 1
  /\ last' = Done("tick", Nothing, "ok", Nothing, <<>>)
  /\ UNCHANGED <<file, carrier, cache, cacheDisabled, writer>>

\* the record createShipment stores for a manual address and one rate
PendingRecord(id) ==
  [id |-> id, createdAt |-> 0, toAddress |-> "manual_address",
   fromAddress |-> getFromAddress, parcel |-> Parcel,
   rates |-> <<Rate("rate_1", "UPS", "Standard", "9.99", "GBP")>>,
   status |-> "pending"]

\* a client constructed when every identifier has a pending shipment
InitClient ==
  /\ file = [kind |-> "json", shipments |-> [id \in Ids |-> PendingRecord(id)],
             lastUpdated |-> 0]
  /\ carrier = [id \in Ids |-> Created]
  /\ now = 0
  /\ cache = <<>>
  /\ cacheDisabled = FALSE
  /\ writer = Idle
  /\ last = Done("init", Nothing, "ok", Nothing, <<>>)

NextClient ==
  \/ \E shipmentId \in Ids : getShipment(shipmentId, TRUE)
  \/ \E shipmentId \in Ids : buyLabel(shipmentId, "rate_1")
  \/ \E shipmentId \in Ids : voidLabel(shipmentId)
  \/ disableCache
  \/ enableCache
  \/ clearCache
  \/ removeFile
  \/ tick

SpecClient == InitClient /\ [][NextClient]_vars

\* ------------------------------------- shipments created at different times
\* the records the file can hold for an identifier, created at any tick
RecordsAtAnyTime(id) ==
  {Json([r EXCEPT !.createdAt = t]) : r \in StoredRecords(id), t \in 0..MaxTime}

\* the mappings the file can hold: identifiers are assigned, and records
\* stored, in the order of IdOrder, so a later identifier is not older
DatedMappings ==
  UNION { {m \in [present -> UNION {RecordsAtAnyTime(id) : id \in present}] :
             /\ \A id \in present : m[id] \in RecordsAtAnyTime(id)
             /\ \A i, j \in DOMAIN IdOrder :
                  (i < j /\ IdOrder[i] \in present /\ IdOrder[j] \in present)
                  => m[IdOrder[i]].createdAt <= m[IdOrder[j]].createdAt} :
          present \in SUBSET Ids }

\* what EasyPost holds for a shipment whose record the store holds
CarrierOf(record) ==
  IF record.status = "pending" THEN Created
  ELSE [status |-> IF record.status = "purchased" THEN "sold" ELSE "refunded",
        tracking_code |-> record.trackingCode,
        label_url |-> Get(record, "labelUrl")]

\* a process started after shipments were created, bought, voided and
\* cancelled at different times
InitDated ==
  /\ \E m \in DatedMappings :
       /\ file = [kind |-> "json", shipments |-> m, lastUpdated |-> MaxTime]
       /\ carrier = [id \in Ids |-> IF id \in DOMAIN m THEN CarrierOf(m[id]) ELSE Created]
  /\ now = MaxTime
  /\ cache = <<>>
  /\ cacheDisabled = FALSE
  /\ writer = Idle
  /\ last = Done("init", Nothing, "ok", Nothing, <<>>)

NextDated ==
  \/ listPending
  \/ \E shipmentId \in Ids : cancelShipment(shipmentId)
  \/ \E shipmentId \in Ids : getRates(shipmentId)

SpecDated == InitDated /\ [][NextDated]_vars

\* ================================================================ claims
\* the status the store holds for an identifier; "absent" when it holds none
StatusOf(f, shipmentId) ==
  IF f.kind = "json" /\ shipmentId \in DOMAIN f.shipments
  THEN f.shipments[shipmentId].status
  ELSE "absent"

\* the record the store holds for an identifier (only where StatusOf is not absent)
RecordOf(f, shipmentId) == f.shipments[shipmentId]

\* the step just taken was this operation
Ran(op) == last'.op = op

\* the calls the step just taken made to an endpoint
CallsTo(endpoint) ==
  {i \in 1..Len(last'.calls) : last'.calls[i].endpoint = endpoint}

\* the status changes the data model allows, with creation and no change
LegalStatusChanges ==
  { <<"absent", "pending">>, <<"pending", "purchased">>,
    <<"pending", "absent">>, <<"purchased", "voided">> }
    \cup {<<x, x>> : x \in {"absent", "pending", "purchased", "voided"}}

\* C1: a record's status only changes pending -> purchased, pending -> absent
\* or purchased -> voided (after absent -> pending at creation).
C1_StatusMovesForwardOnly ==
  [][\A shipmentId \in Ids :
       <<StatusOf(file, shipmentId), StatusOf(file', shipmentId)>> \in LegalStatusChanges]_vars

\* a label has been bought for the shipment (refunded since or not)
LabelBought(shipmentId) == carrier[shipmentId].status \in {"sold", "refunded"}

\* C2: once a label has been bought for a shipment, no later buyLabel on that
\* identifier reaches the external purchase endpoint.
C2_PurchaseEndpointReachedOnce ==
  [][\A shipmentId \in Ids :
       LabelBought(shipmentId) =>
         \A i \in CallsTo("Shipment.buy") : last'.calls[i].args[1] # shipmentId]_vars

\* C3: buyLabel issues the external purchase call only if the stored record
\* exists, its status is pending and rateId is one of its stored rates.
C3_PurchaseOnlyFromPending ==
  [][(Ran("buyLabel") /\ CallsTo("Shipment.buy") # {}) =>
       /\ StatusOf(file, last'.args.shipmentId) = "pending"
       /\ \E i \in 1..Len(RecordOf(file, last'.args.shipmentId).rates) :
            RecordOf(file, last'.args.shipmentId).rates[i].id = last'.args.rateId]_vars

\* rateId is the identifier of one of the rates of a record
Stored(record, rateId) ==
  \E i \in 1..Len(record.rates) : record.rates[i].id = rateId

\* C4: of two consecutive buyLabel calls with the same (shipmentId, rateId) on
\* a pending shipment and one of its rates, the first succeeds unless the
\* carrier refuses, and after a first that succeeded the second fails as
\* already purchased, naming the tracking code the first stored, with no
\* purchase call and no store change.
C4_SecondBuyRefused ==
  [][Ran("buyLabel") =>
       /\ (/\ StatusOf(file, last'.args.shipmentId) = "pending"
           /\ Stored(RecordOf(file, last'.args.shipmentId), last'.args.rateId))
          => \/ last'.outcome = "ok"
             \/ /\ last'.outcome = "ExternalError"
                /\ ~last'.calls[1].ok
       /\ (last.op = "buyLabel" /\ last.outcome = "ok" /\ last'.args = last.args)
          => /\ last'.outcome = "AlreadyPurchased"
             /\ last'.ret.tracking = last.ret.label.trackingCode
             /\ last'.ret.tracking = RecordOf(file, last.args.shipmentId).trackingCode
             /\ last'.calls = <<>>
             /\ file' = file]_vars

C4_Witness ==
  /\ last.op = "buyLabel"
  /\ last.outcome = "AlreadyPurchased"
  /\ StatusOf(file, last.args.shipmentId) = "purchased"
  /\ Stored(RecordOf(file, last.args.shipmentId), last.args.rateId)
  /\ last.ret.tracking = RecordOf(file, last.args.shipmentId).trackingCode

\* a precondition of buyLabel(shipmentId, rateId) fails in the current store
PreconditionFails(shipmentId, rateId) ==
  \/ StatusOf(file, shipmentId) = "absent"
  \/ StatusOf(file, shipmentId) = "purchased"
  \/ ~Stored(RecordOf(file, shipmentId), rateId)

\* C5: when a precondition of buyLabel fails (no record, record purchased,
\* rateId not stored), it raises an error, makes no external call and leaves
\* the store unchanged.
C5_FailedPreconditionIsClean ==
  [][(Ran("buyLabel") /\ PreconditionFails(last'.args.shipmentId, last'.args.rateId)) =>
       /\ last'.outcome \in {"NotFound", "AlreadyPurchased", "RateNotFound"}
       /\ last'.calls = <<>>
       /\ file' = file]_vars

C5_Witness ==
  /\ last.op = "buyLabel"
  /\ last.outcome = "RateNotFound"
  /\ StatusOf(file, last.args.shipmentId) = "pending"
  /\ ~Stored(RecordOf(file, last.args.shipmentId), last.args.rateId)

\* C6: the purchase endpoint is contacted only by buyLabel, with its own
\* (shipmentId, rateId), while the store holds a record for shipmentId that
\* createShipment created and rateId is one of that record's rates.
C6_PurchaseOnlyByBuyLabel ==
  [][\A i \in CallsTo("Shipment.buy") :
       /\ Ran("buyLabel")
       /\ last'.calls[i].args = <<last'.args.shipmentId, last'.args.rateId>>
       /\ StatusOf(file, last'.args.shipmentId) # "absent"
       /\ carrier[last'.args.shipmentId].status # "none"
       /\ Stored(RecordOf(file, last'.args.shipmentId), last'.args.rateId)]_vars

C6_Witness ==
  /\ last.op = "buyLabel"
  /\ Len(last.calls) = 1
  /\ last.calls[1].endpoint = "Shipment.buy"
  /\ last.calls[1].args = <<last.args.shipmentId, last.args.rateId>>

\* C7: a successful buyLabel returns carrier, service, rate and currency of
\* the stored rate whose id is rateId, with the tracking code and label URL
\* of the purchase response, and leaves the record purchased with those two.
C7_LabelFromMatchedRate ==
  [][(Ran("buyLabel") /\ last'.outcome = "ok") =>
       LET shipmentId == last'.args.shipmentId
           before == RecordOf(file, shipmentId)
           after == RecordOf(file', shipmentId)
           label == last'.ret.label
           purchased == last'.calls[1].result
       IN  /\ \E i \in 1..Len(before.rates) :
                /\ before.rates[i].id = last'.args.rateId
                /\ label.carrier = before.rates[i].carrier
                /\ label.service = before.rates[i].service
                /\ label.rate = before.rates[i].rate
                /\ label.currency = before.rates[i].currency
           /\ label.trackingCode = purchased.tracking_code
           /\ label.labelUrl = purchased.label_url
           /\ StatusOf(file', shipmentId) = "purchased"
           /\ Get(after, "trackingCode") = label.trackingCode
           /\ Get(after, "labelUrl") = label.labelUrl]_vars

C7_Witness ==
  /\ last.op = "buyLabel"
  /\ last.outcome = "ok"
  /\ Len(RecordOf(file, last.args.shipmentId).rates) = 2
  /\ RecordOf(file, last.args.shipmentId).rates[2].id = last.args.rateId
  /\ last.ret.label.rate = RecordOf(file, last.args.shipmentId).rates[2].rate

\* the carrier of a rate equals the filter ignoring case (no filter: any rate)
SameCarrier(r, carrierFilter) ==
  carrierFilter = Undefined \/ toLowerCase(r.carrier) = toLowerCase(carrierFilter)

\* the rates the Shipment.create call of the operation last run returned
ReturnedBy(op) ==
  LET result == op.calls[Len(op.calls)].result
  IN  IF "rates" \in DOMAIN result THEN result.rates ELSE <<>>

CreateSucceeded(op) ==
  /\ op.calls # <<>>
  /\ op.calls[Len(op.calls)].endpoint = "Shipment.create"
  /\ op.calls[Len(op.calls)].ok

\* C8: a successful createShipment returns a pending record whose rates are
\* exactly the returned rates of the filtered carrier (ignoring case), not
\* empty, ascending by numeric price, and stores that record under its id.
C8_CreatedRecord ==
  [][(Ran("createShipment") /\ last'.outcome = "ok") =>
       LET record == last'.ret.shipment
           returned == ReturnedBy(last')
           wanted == {returned[i] : i \in {k \in 1..Len(returned) :
                                             SameCarrier(returned[k], last'.args.options.carrier)}}
       IN  /\ record.status = "pending"
           /\ Len(record.rates) > 0
           /\ {record.rates[i] : i \in 1..Len(record.rates)} = wanted
           /\ Len(record.rates) = Cardinality(wanted)
           /\ \A i, j \in 1..Len(record.rates) :
                i < j => parseFloat(record.rates[i].rate) <= parseFloat(record.rates[j].rate)
           /\ StatusOf(file', record.id) = "pending"
           /\ RecordOf(file', record.id) = Json(record)]_vars

C8_Witness ==
  /\ last.op = "createShipment"
  /\ last.outcome = "ok"
  /\ last.args.options.carrier = "ups"
  /\ Len(last.ret.shipment.rates) = 2
  /\ last.ret.shipment.rates # ReturnedBy(last)
  /\ RecordOf(file, last.ret.shipment.id).rates = last.ret.shipment.rates

\* C9: when the rate shopper returns no rate, or none of the filtered
\* carrier, createShipment fails with the no-rates error and the store is
\* unchanged.
C9_NoRatesNoRecord ==
  [][(/\ Ran("createShipment")
      /\ CreateSucceeded(last')
      /\ \A i \in 1..Len(ReturnedBy(last')) :
           ~SameCarrier(ReturnedBy(last')[i], last'.args.options.carrier)) =>
       /\ last'.outcome = "NoRates"
       /\ file' = file]_vars

C9_Witness ==
  /\ last.op = "createShipment"
  /\ last.outcome = "NoRates"
  /\ last.args.options.carrier = "FedEx"
  /\ Len(ReturnedBy(last)) > 0
  /\ file.kind = "json"

\* C10: createShipment with neither order reference nor address fails before
\* any external call; with an order the resolver cannot resolve it fails
\* without calling the rate shopper; the store is unchanged in both cases.
C10_FailsBeforeExternalCalls ==
  [][Ran("createShipment") =>
       /\ (last'.args.options.orderId = Undefined /\ last'.args.options.toAddress = Undefined)
          => /\ last'.outcome # "ok"
             /\ last'.calls = <<>>
             /\ file' = file
             /\ carrier' = carrier
       /\ (/\ last'.args.options.orderId # Undefined
           /\ CallsTo("fetchShopifyOrderAddress") # {}
           /\ ~last'.calls[1].ok)
          => /\ last'.outcome # "ok"
             /\ CallsTo("Shipment.create") = {}
             /\ file' = file
             /\ carrier' = carrier]_vars

C10_Witness ==
  /\ last.op = "createShipment"
  /\ last.outcome = "ResolveFailed"
  /\ last.args.options.orderId = "order_1"
  /\ Len(last.calls) = 1
  /\ file.kind = "json"

\* C11: cancelShipment on an identifier with no record, or whose record is
\* purchased, returns success = false without raising and without an external
\* call, and leaves the file as it was (a purchased record keeps its status,
\* tracking code and label URL).
C11_CancelRefusedIsClean ==
  [][(/\ Ran("cancelShipment")
      /\ StatusOf(file, last'.args.shipmentId) \in {"absent", "purchased"})
     => /\ last'.outcome = "ok"
        /\ last'.ret.success = FALSE
        /\ last'.calls = <<>>
        /\ file' = file]_vars

C11_Witness ==
  /\ last.op = "cancelShipment"
  /\ last.ret.success = FALSE
  /\ StatusOf(file, last.args.shipmentId) = "purchased"
  /\ RecordOf(file, last.args.shipmentId).trackingCode = "1Z001"
  /\ RecordOf(file, last.args.shipmentId).labelUrl = "https://label/1"

\* C12: cancelShipment on a pending shipment returns success = true and
\* removes the record; while the store holds no record for an identifier,
\* getRates and buyLabel on it fail as not found and listPending does not list
\* it; and only createShipment makes the store hold a record for it again.
C12_CancelRemovesRecord ==
  [][/\ (Ran("cancelShipment") /\ StatusOf(file, last'.args.shipmentId) = "pending")
        => /\ last'.outcome = "ok"
           /\ last'.ret.success = TRUE
           /\ StatusOf(file', last'.args.shipmentId) = "absent"
     /\ ((Ran("getRates") \/ Ran("buyLabel")) /\ StatusOf(file, last'.args.shipmentId) = "absent")
        => /\ last'.outcome = "NotFound"
           /\ last'.calls = <<>>
     /\ Ran("listPending")
        => \A i \in 1..Len(last'.ret.shipments) :
              StatusOf(file, last'.ret.shipments[i].id) # "absent"
     /\ \A shipmentId \in Ids :
          (StatusOf(file, shipmentId) = "absent" /\ StatusOf(file', shipmentId) # "absent")
          => Ran("createShipment")]_vars

C12_Witness ==
  /\ last.op = "cancelShipment"
  /\ last.ret.success = TRUE
  /\ StatusOf(file, last.args.shipmentId) = "absent"
  /\ carrier[last.args.shipmentId].status = "created"
  /\ \E other \in Ids : StatusOf(file, other) = "pending"

\* C13: cancelShipment deletes a record only while its status is pending: a
\* purchased or voided record is still in the store, as it was, after the call.
C13_CancelDeletesOnlyPending ==
  [][(/\ Ran("cancelShipment")
      /\ StatusOf(file, last'.args.shipmentId) \in {"purchased", "voided"})
     => /\ StatusOf(file', last'.args.shipmentId) = StatusOf(file, last'.args.shipmentId)
        /\ RecordOf(file', last'.args.shipmentId) = RecordOf(file, last'.args.shipmentId)]_vars

\* C14: when the external refund call fails, voidLabel returns success = false
\* with a message, raises nothing, and leaves the file as it was.
C14_FailedRefundIsClean ==
  [][(/\ Ran("voidLabel")
      /\ \E i \in CallsTo("Shipment.refund") : ~last'.calls[i].ok)
     => /\ last'.outcome = "ok"
        /\ last'.ret.success = FALSE
        /\ last'.ret.message = "Void failed"
        /\ file' = file]_vars

C14_Witness ==
  /\ last.op = "voidLabel"
  /\ Len(last.calls) = 1
  /\ ~last.calls[1].ok
  /\ last.ret.success = FALSE
  /\ StatusOf(file, last.args.shipmentId) = "purchased"
  /\ carrier[last.args.shipmentId].status = "sold"

\* two stores hold the same records but for the record of shipmentId
SameButFor(f, g, shipmentId) ==
  /\ f.kind = g.kind
  /\ f.kind = "json"
     => /\ DOMAIN f.shipments = DOMAIN g.shipments
        /\ \A k \in DOMAIN f.shipments \ {shipmentId} : f.shipments[k] = g.shipments[k]

\* C15: when the external refund call succeeds, voidLabel returns
\* success = true; a record the store holds for the identifier gets status
\* voided with every other field, and every other record, as before; with no
\* such record the file is left as it was.
C15_RefundMarksVoided ==
  [][(/\ Ran("voidLabel")
      /\ \E i \in CallsTo("Shipment.refund") : last'.calls[i].ok)
     => /\ last'.outcome = "ok"
        /\ last'.ret.success = TRUE
        /\ IF StatusOf(file, last'.args.shipmentId) = "absent"
           THEN file' = file
           ELSE /\ StatusOf(file', last'.args.shipmentId) = "voided"
                /\ SameButFor(file, file', last'.args.shipmentId)
                /\ DOMAIN RecordOf(file', last'.args.shipmentId)
                     = DOMAIN RecordOf(file, last'.args.shipmentId)
                /\ \A k \in DOMAIN RecordOf(file, last'.args.shipmentId) \ {"status"} :
                     RecordOf(file', last'.args.shipmentId)[k]
                       = RecordOf(file, last'.args.shipmentId)[k]]_vars

\* a refund that succeeded for a shipment the store has no record of, in a
\* store that holds the voided record of another
C15_Witness ==
  /\ last.op = "voidLabel"
  /\ last.ret.success = TRUE
  /\ StatusOf(file, last.args.shipmentId) = "absent"
  /\ \E other \in Ids : /\ StatusOf(file, other) = "voided"
                         /\ "trackingCode" \in DOMAIN RecordOf(file, other)

\* C16: loading the store never raises, and from a file that is missing or
\* holds anything but a persisted state it yields the empty shipment mapping.
C16_LoadDegradesToEmpty ==
  [][(Ran("loadState") /\ file.kind # "json")
     => /\ last'.outcome = "ok"
        /\ "shipments" \in DOMAIN last'.ret.state
        /\ last'.ret.state.shipments = <<>>]_vars

\* reading any property gives the same value in both mappings
SameReads(saved, loaded) ==
  /\ DOMAIN saved = DOMAIN loaded
  /\ \A id \in DOMAIN saved :
       \A k \in DOMAIN saved[id] \cup DOMAIN loaded[id] :
         Get(saved[id], k) = Get(loaded[id], k)

\* C17: a load right after save(state) yields the shipment mapping that was
\* saved: the same identifiers, and in each record the same value for every
\* property (a property saved as undefined reads as undefined).
C17_RoundTrip ==
  [][(Ran("loadState") /\ last.op = "saveState")
     => /\ last'.outcome = "ok"
        /\ SameReads(last.args.state.shipments, last'.ret.state.shipments)]_vars

C17_Witness ==
  /\ last.op = "loadState"
  /\ file.kind = "json"
  /\ DOMAIN last.ret.state.shipments = Ids
  /\ \E id \in Ids : /\ last.ret.state.shipments[id].status = "purchased"
                      /\ "labelUrl" \notin DOMAIN last.ret.state.shipments[id]
                      /\ "trackingCode" \in DOMAIN last.ret.state.shipments[id]

\* C18: in every step of a save the file keeps its previous content or gets
\* the complete new content.
C18_SaveIsAtomic ==
  [][(writer # Idle \/ writer' # Idle)
     => \/ file' = file
        \/ writer # Idle /\ file' = writer.content]_vars

\* the cache holds an entry for the identifier that has not expired
LiveEntry(shipmentId) ==
  /\ shipmentId \in DOMAIN cache
  /\ now < cache[shipmentId].expires

\* C19: a getShipment for an identifier that has a live cache entry, with the
\* cache enabled, makes no external detail fetch; one made when the entry has
\* expired (or there is none), or while the cache is disabled, makes exactly
\* one; and a fetch that succeeded leaves an entry that lives for the TTL.
C19_FetchOncePerTtl ==
  [][Ran("getShipment")
     => /\ IF LiveEntry(last'.args.shipmentId) /\ ~cacheDisabled
           THEN last'.calls = <<>>
           ELSE /\ Len(last'.calls) = 1
                /\ CallsTo("Shipment.retrieve") = {1}
                /\ last'.calls[1].args = <<last'.args.shipmentId>>
        /\ (Len(last'.calls) = 1 /\ last'.calls[1].ok)
           => /\ last'.args.shipmentId \in DOMAIN cache'
              /\ cache'[last'.args.shipmentId].expires = now + TtlMinute]_vars

\* a second getShipment, one tick after the first, answered from the cache
C19_Witness ==
  /\ last.op = "getShipment"
  /\ last.outcome = "ok"
  /\ last.calls = <<>>
  /\ ~cacheDisabled
  /\ cache[last.args.shipmentId].expires = now + 1

\* C20 (as stated): getShipment returns the detail the carrier holds for the
\* shipment at the time of the call.
C20_CurrentCarrierView ==
  [][(Ran("getShipment") /\ last'.outcome = "ok")
     => /\ last'.ret.detail.id = last'.args.shipmentId
        /\ last'.ret.detail.status = carrier[last'.args.shipmentId].status
        /\ last'.ret.detail.tracking_code
             = carrier[last'.args.shipmentId].tracking_code]_vars

\* C20 (amended): a getShipment that fetches returns the detail the carrier
\* holds at the time of the call, whatever the local store holds; one that
\* does not fetch returns the detail of a live cache entry; and a cache entry
\* is only ever written by a getShipment that fetched, with the detail the
\* carrier held then and a life of one TTL.
C20_CarrierViewAtLastFetch ==
  [][/\ (Ran("getShipment") /\ last'.outcome = "ok")
        => IF last'.calls # <<>>
           THEN /\ last'.ret.detail.id = last'.args.shipmentId
                /\ last'.ret.detail.status = carrier[last'.args.shipmentId].status
                /\ last'.ret.detail.tracking_code
                     = carrier[last'.args.shipmentId].tracking_code
           ELSE /\ LiveEntry(last'.args.shipmentId)
                /\ last'.ret.detail = cache[last'.args.shipmentId].value
     /\ \A shipmentId \in DOMAIN cache' :
          (shipmentId \notin DOMAIN cache \/ cache'[shipmentId] # cache[shipmentId])
          => /\ Ran("getShipment")
             /\ last'.args.shipmentId = shipmentId
             /\ last'.calls # <<>>
             /\ cache'[shipmentId].value = last'.ret.detail
             /\ cache'[shipmentId].expires = now + TtlMinute]_vars

\* a getShipment answered from the cache with the detail from before the
\* purchase, for a shipment the store has no record of any more
C20_Witness ==
  /\ last.op = "getShipment"
  /\ last.calls = <<>>
  /\ last.ret.detail.status = "created"
  /\ carrier[last.args.shipmentId].status = "sold"
  /\ StatusOf(file, last.args.shipmentId) = "absent"

\* C21: listPending returns exactly the stored records whose status is
\* pending, each once, newest first, makes no external call and leaves the
\* file as it was.
C21_ListPending ==
  [][Ran("listPending")
     => LET listed == last'.ret.shipments IN
        /\ last'.outcome = "ok"
        /\ last'.calls = <<>>
        /\ file' = file
        /\ \A i \in 1..Len(listed) :
             /\ StatusOf(file, listed[i].id) = "pending"
             /\ listed[i] = RecordOf(file, listed[i].id)
        /\ \A shipmentId \in Ids :
             StatusOf(file, shipmentId) = "pending"
             => \E i \in 1..Len(listed) : listed[i].id = shipmentId
        /\ \A i, j \in 1..Len(listed) :
             i < j => /\ listed[i].id # listed[j].id
                      /\ listed[i].createdAt >= listed[j].createdAt]_vars

\* two pending shipments created at different times, listed newest first
C21_Witness ==
  /\ last.op = "listPending"
  /\ Len(last.ret.shipments) = 2
  /\ last.ret.shipments[1].createdAt > last.ret.shipments[2].createdAt
  /\ last.ret.shipments[1].id = IdOrder[2]
  /\ file.shipments[IdOrder[1]].status = "pending"

\* C22: getRates returns the rate list the store holds for the record,
\* whatever its status, and fails as not found when the store holds no record;
\* it makes no external call and leaves the file as it was.
C22_GetRates ==
  [][Ran("getRates")
     => /\ last'.calls = <<>>
        /\ file' = file
        /\ carrier' = carrier
        /\ IF StatusOf(file, last'.args.shipmentId) = "absent"
           THEN last'.outcome = "NotFound"
           ELSE /\ last'.outcome = "ok"
                /\ last'.ret.rates = RecordOf(file, last'.args.shipmentId).rates]_vars

\* the two rates of a voided record, returned in the stored order
C22_Witness ==
  /\ last.op = "getRates"
  /\ last.outcome = "ok"
  /\ StatusOf(file, last.args.shipmentId) = "voided"
  /\ Len(last.ret.rates) = 2
  /\ last.ret.rates = RecordOf(file, last.args.shipmentId).rates

\* the properties of a record that are set at creation for good
CreationKeys == {"rates", "createdAt", "toAddress", "fromAddress", "parcel"}

\* C23: the record a createShipment stores has the rates, createdAt,
\* toAddress, fromAddress and parcel of the shipment it returns, and for as
\* long as the store holds a record, whatever operation runs on whatever
\* identifier, these five stay as they are.
C23_CreationFieldsKept ==
  [][/\ (Ran("createShipment") /\ last'.outcome = "ok")
        => \A k \in CreationKeys :
             RecordOf(file', last'.ret.shipment.id)[k] = last'.ret.shipment[k]
     /\ \A shipmentId \in Ids :
          (StatusOf(file, shipmentId) # "absent" /\ StatusOf(file', shipmentId) # "absent")
          => \A k \in CreationKeys :
               /\ k \in DOMAIN RecordOf(file', shipmentId)
               /\ RecordOf(file', shipmentId)[k] = RecordOf(file, shipmentId)[k]]_vars

\* a record bought and then voided, still with the two rates it was quoted,
\* while the other shipment is cancelled
C23_Witness ==
  /\ last.op = "cancelShipment"
  /\ last.ret.success = TRUE
  /\ \E shipmentId \in Ids \ {last.args.shipmentId} :
       /\ StatusOf(file, shipmentId) = "voided"
       /\ Len(RecordOf(file, shipmentId).rates) = 2
       /\ RecordOf(file, shipmentId).toAddress = "shopify_address"

\* C24: in every state of the store each record is stored under its own
\* identifier, so no two entries of the mapping are records of one shipment.
C24_OneRecordPerId ==
  file.kind = "json"
  => /\ \A k \in DOMAIN file.shipments : file.shipments[k].id = k
     /\ \A k1, k2 \in DOMAIN file.shipments :
          file.shipments[k1].id = file.shipments[k2].id => k1 = k2

\* a store with a record for each identifier, one bought since and one not
C24_Witness ==
  /\ file.kind = "json"
  /\ DOMAIN file.shipments = Ids
  /\ file.shipments[IdOrder[1]].status = "purchased"
  /\ file.shipments[IdOrder[2]].status = "pending"
  /\ last.op = "createShipment"

\* what reading a property of the record of an identifier gives
Field(f, shipmentId, key) ==
  IF StatusOf(f, shipmentId) = "absent" THEN Undefined
  ELSE Get(RecordOf(f, shipmentId), key)

\* C25: a pending record has no trackingCode and no labelUrl, and the value of
\* either in a record changes only in the store write of a successful
\* buyLabel on that identifier, the one that sets its status to purchased.
C25_LabelFieldsOnlyOnPurchase ==
  [][\A shipmentId \in Ids :
       /\ StatusOf(file', shipmentId) = "pending"
          => /\ Field(file', shipmentId, "trackingCode") = Undefined
             /\ Field(file', shipmentId, "labelUrl") = Undefined
       /\ (/\ StatusOf(file', shipmentId) # "absent"
           /\ \/ Field(file', shipmentId, "trackingCode") # Field(file, shipmentId, "trackingCode")
              \/ Field(file', shipmentId, "labelUrl") # Field(file, shipmentId, "labelUrl"))
          => /\ Ran("buyLabel")
             /\ last'.outcome = "ok"
             /\ last'.args.shipmentId = shipmentId
             /\ StatusOf(file', shipmentId) = "purchased"
             /\ Field(file', shipmentId, "trackingCode") = last'.ret.label.trackingCode
             /\ Field(file', shipmentId, "labelUrl") = last'.ret.label.labelUrl]_vars

\* a purchase just stored a tracking code and a label URL, next to a pending
\* record that has neither
C25_Witness ==
  /\ last.op = "buyLabel"
  /\ last.outcome = "ok"
  /\ Field(file, last.args.shipmentId, "trackingCode") = "1Z001"
  /\ Field(file, last.args.shipmentId, "labelUrl") = "https://label/1"
  /\ \E other \in Ids : /\ StatusOf(file, other) = "pending"
                         /\ Field(file, other, "trackingCode") = Undefined

\* the step just taken made an external call that failed
SomeCallFailed == \E i \in 1..Len(last'.calls) : ~last'.calls[i].ok

\* the step just taken ended in an error, raised or returned
OperationFailed ==
  IF last'.op \in {"voidLabel", "cancelShipment"}
  THEN last'.ret.success = FALSE
  ELSE last'.outcome # "ok"

\* C26: an operation one of whose external calls fails ends in an error and
\* leaves the file as it was (after a failed purchase a pending record is
\* still pending without a tracking code, after a failed creation there is no
\* new record); the file is only written by a step all of whose external
\* calls succeeded.
C26_ExternalFailureIsAtomic ==
  [][/\ SomeCallFailed => (OperationFailed /\ file' = file)
     /\ (/\ Ran("buyLabel")
         /\ SomeCallFailed
         /\ StatusOf(file, last'.args.shipmentId) = "pending")
        => /\ StatusOf(file', last'.args.shipmentId) = "pending"
           /\ Field(file', last'.args.shipmentId, "trackingCode") = Undefined
     /\ file' # file => \A i \in 1..Len(last'.calls) : last'.calls[i].ok]_vars

\* a purchase the carrier refused, on a shipment created from an order whose
\* address was looked up
C26_Witness ==
  /\ last.op = "buyLabel"
  /\ last.outcome = "ExternalError"
  /\ Len(last.calls) = 1
  /\ ~last.calls[1].ok
  /\ StatusOf(file, last.args.shipmentId) = "pending"
  /\ RecordOf(file, last.args.shipmentId).toAddress = "shopify_address"

\* the identifiers the step just taken was about: the one it was given, or
\* the one of the shipment a createShipment returned
Touched ==
  IF Ran("createShipment")
  THEN (IF last'.outcome = "ok" THEN {last'.ret.shipment.id} ELSE {})
  ELSE {last'.args.shipmentId}

\* C27: createShipment, buyLabel, cancelShipment and voidLabel, succeeding or
\* failing, leave the entry of every identifier but their own as it was:
\* absent if it was absent, the same record if there was one.
C27_OtherEntriesKept ==
  [][(Ran("createShipment") \/ Ran("buyLabel") \/ Ran("cancelShipment") \/ Ran("voidLabel"))
     => \A shipmentId \in Ids \ Touched :
          /\ StatusOf(file', shipmentId) = StatusOf(file, shipmentId)
          /\ StatusOf(file, shipmentId) # "absent"
             => RecordOf(file', shipmentId) = RecordOf(file, shipmentId)]_vars

\* a label voided while the store holds the purchased record of the other
\* shipment
C27_Witness ==
  /\ last.op = "voidLabel"
  /\ last.ret.success = TRUE
  /\ StatusOf(file, last.args.shipmentId) = "voided"
  /\ \E other \in Ids \ {last.args.shipmentId} :
       /\ StatusOf(file, other) = "purchased"
       /\ Len(RecordOf(file, other).rates) = 2

\* C28: between operations, for every shipment whose label the carrier has
\* sold and not refunded, the store holds a record with status purchased and
\* the tracking code the carrier gave.
C28_StoreAgreesWithCarrier ==
  \A shipmentId \in Ids :
    carrier[shipmentId].status = "sold"
    => /\ StatusOf(file, shipmentId) = "purchased"
       /\ Field(file, shipmentId, "trackingCode") = carrier[shipmentId].tracking_code

\* one label sold and recorded, after a cancelShipment that the purchased
\* record made fail, while the other label is refunded and its record gone
C28_Witness ==
  /\ last.op = "cancelShipment"
  /\ last.ret.success = FALSE
  /\ carrier[last.args.shipmentId].status = "sold"
  /\ StatusOf(file, last.args.shipmentId) = "purchased"
  /\ \E other \in Ids : /\ carrier[other].status = "refunded"
                         /\ StatusOf(file, other) = "absent"

\* C29: buyLabel reports the first precondition that fails, in the order not
\* found, already purchased, rate not found; so on a purchased record it
\* fails as already purchased, naming the stored tracking code, whether or not
\* rateId is one of the stored rates.
C29_FirstFailedPrecondition ==
  [][Ran("buyLabel")
     => LET shipmentId == last'.args.shipmentId
            rateId == last'.args.rateId
        IN  IF StatusOf(file, shipmentId) = "absent"
            THEN last'.outcome = "NotFound"
            ELSE IF StatusOf(file, shipmentId) = "purchased"
            THEN /\ last'.outcome = "AlreadyPurchased"
                 /\ last'.ret.tracking = Field(file, shipmentId, "trackingCode")
            ELSE IF ~Stored(RecordOf(file, shipmentId), rateId)
            THEN last'.outcome = "RateNotFound"
            ELSE last'.outcome \in {"ok", "ExternalError"}]_vars

\* a purchased shipment, asked for again with a rate it was never quoted
C29_Witness ==
  /\ last.op = "buyLabel"
  /\ last.outcome = "AlreadyPurchased"
  /\ last.args.rateId = "rate_x"
  /\ ~Stored(RecordOf(file, last.args.shipmentId), last.args.rateId)
  /\ last.ret.tracking = "1Z002"

====
